---- MODULE Spec2Model ----
(***************************************************************************)
(* Session / credential lifecycle of the Braindemy backend:                *)
(* AuthService (register, login, refreshToken, logout) over the users and  *)
(* refresh_tokens tables.  Every request is a process that is suspended at *)
(* each awaited database statement; a statement itself is atomic.          *)
(***************************************************************************)
EXTENDS Integers, FiniteSets, Sequences, TLC

(* ------------------------------ bounds --------------------------------- *)
MaxTicks == 1
MaxCalls == 3

(* -------------------------- program constants -------------------------- *)
AccessTtl == 900
RefreshTtl == 2592000
SessionTtl == 2592000

Procs == {1, 2}
UserIds == {"u1", "u2"}
Passwords == {"right", "wrong"}
Roles == {"student", "teacher"}
Statuses == {"active", "banned"}
\* The defaults of the columns role and status.
DefaultRole == "student"
DefaultStatus == "active"

MsgInvalid == "Refresh token invalido"
MsgExpired == "Refresh token expirado"
MsgCorrupt == "Token corrupto o manipulado"
MsgNoUser == "Usuario no encontrado"
MsgCredentials == "Credenciales invalidas"
MsgLoggedOut == "Sesion cerrada correctamente"
MsgOk == "ok"
ErrP2002 == "P2002 unique constraint"
ErrP2025 == "P2025 record not found"

VARIABLES users, refresh_tokens, now, ticks, ncalls, pc, call, result,
          issued, access_issued, rotated, revoked, superseded

vars == <<users, refresh_tokens, now, ticks, ncalls, pc, call, result,
          issued, access_issued, rotated, revoked, superseded>>

(* ------------------------------- tokens -------------------------------- *)
\* A signed JWT is determined by its payload, the second it was signed in
\* and the key: HS256 is deterministic.  sig is "ok" for a string signed
\* with the server's secret and "bad" for any other string.
NoToken == [sub |-> "none", iat |-> 0, sig |-> "none"]
Garbage == [sub |-> "none", iat |-> 0, sig |-> "bad"]
\* The value of @Body('refreshToken') for a body without that field.
Undefined == [sub |-> "none", iat |-> 0, sig |-> "undefined"]
NoAccess == [sub |-> "none", email |-> "none", role |-> "none", iat |-> 0]

signRefresh(id, t) == [sub |-> id, iat |-> t, sig |-> "ok"]

\* Variant: the email claim is filled with the id.
signAccess_idAsEmail(id, email, role, t) ==
    [sub |-> id, email |-> id, role |-> role, iat |-> t]

signAccess(id, email, role, t) ==
    [sub |-> id, email |-> email, role |-> role, iat |-> t]

\* Variant: the refresh token is signed for the email.
generateTokens_emailSub(id, email, role, t) ==
    [accessToken |-> signAccess(id, email, role, t),
     refreshToken |-> signRefresh(email, t)]

generateTokens(id, email, role, t) ==
    [accessToken |-> signAccess(id, email, role, t),
     refreshToken |-> signRefresh(id, t)]

\* Variant: jwtService.decode, which reads the payload without checking
\* the signature.
verify_decodeOnly(token, t) == t < token.iat + RefreshTtl

\* jwtService.verify: signature and the exp claim (exp = iat + 30d).
verify(token, t) == token.sig = "ok" /\ t < token.iat + RefreshTtl

\* A token string that differs from tok in its signature segment.
Tamper(tok) == [tok EXCEPT !.sig = "bad"]

(* --------------------------- the two tables ---------------------------- *)
Email(u) == IF u = "u1" THEN "a@x.com" ELSE "b@x.com"

\* The id the database generates for the account with this email.
uuid(email) == CHOOSE u \in UserIds : Email(u) = email

hash(password) == <<"bcrypt", password>>

compare(password, password_hash) == hash(password) = password_hash

findUserByEmail(us, email) == {u \in DOMAIN us : us[u].email = email}

findUserById(us, id) == {u \in DOMAIN us : u = id}

\* Variant: the session is looked up by the subject of the presented token.
findUniqueToken_byUser(rows, token) == {r \in rows : r.user_id = token.sub}

findUniqueToken(rows, token) == {r \in rows : r.token = token}

\* Variant: the deleteMany of saveRefreshToken without its filter.
deleteManyByUser_all(rows, userId) == {}

\* Variant: saveRefreshToken without its deleteMany.
deleteManyByUser_none(rows, userId) == rows

deleteManyByUser(rows, userId) == {r \in rows : r.user_id # userId}

\* deleteMany({where: {token}}): prisma drops a filter whose value is
\* undefined, and a deleteMany without filter deletes every row.
deleteManyByToken(rows, token) ==
    IF token = Undefined THEN {} ELSE {r \in rows : r.token # token}

\* Variant: the stored expiry is never looked at.
isExpired_never(t, expires_at) == FALSE

isExpired(t, expires_at) == t > expires_at

\* Variant: the record expires when the token does, thirty days after the
\* token was signed.
newRow_tokenExp(userId, token, t) ==
    [user_id |-> userId, token |-> token,
     expires_at |-> token.iat + SessionTtl]

\* The record saveRefreshToken creates at time t.
newRow(userId, token, t) ==
    [user_id |-> userId, token |-> token, expires_at |-> t + SessionTtl]

\* Variant: the signature is verified before the store is asked.
refreshCheck_verifyFirst(rows, token, t) ==
    LET stored == findUniqueToken(rows, token) IN
    IF ~verify(token, t) THEN MsgCorrupt
    ELSE IF stored = {} THEN MsgInvalid
    ELSE IF \E r \in stored : isExpired(t, r.expires_at) THEN MsgExpired
    ELSE MsgOk

\* Outcome of the store lookup, the expiry test and the signature check.
refreshCheck(rows, token, t) ==
    LET stored == findUniqueToken(rows, token) IN
    IF stored = {} THEN MsgInvalid
    ELSE IF \E r \in stored : isExpired(t, r.expires_at) THEN MsgExpired
    ELSE IF ~verify(token, t) THEN MsgCorrupt
    ELSE MsgOk

(* --------------------------- request records --------------------------- *)
NoCall == [op |-> "none", email |-> "none", password |-> "none",
           refreshToken |-> NoToken, user |-> "none", role |-> "none",
           status |-> "none", dto |-> [role |-> "none", status |-> "none"],
           tokens |-> [accessToken |-> NoAccess, refreshToken |-> NoToken],
           afterRotate |-> FALSE, afterLogout |-> FALSE,
           afterLogin |-> FALSE, validAtStart |-> FALSE, raced |-> FALSE,
           expiredAtStart |-> FALSE,
           prior |-> {}, roleSeen |-> {}]

\* The columns of the users table.
UserColumns == {"id", "first_name", "last_name", "email", "birthdate",
                "password_hash", "role", "timezone", "status", "created_at",
                "updated_at"}

\* The columns UsersService.create selects for the object register returns.
CreateSelect == {"id", "first_name", "last_name", "email", "role", "status",
                 "birthdate", "timezone", "created_at", "updated_at"}

\* The user summary login builds.
LoginSummary == {"id", "email", "role", "status", "createdAt"}

\* The fields of the user object in the answer of a successful request.
userFields(op) ==
    IF op = "register" THEN CreateSelect
    ELSE IF op = "login" THEN LoginSummary
    ELSE IF op = "validateUser" THEN UserColumns
    ELSE {}

\* What a finished request returned, with the request it answers.
NoResult == [outcome |-> "none", accessToken |-> NoAccess,
             refreshToken |-> NoToken, user |-> {}, of |-> NoCall]

Failed(c, msg) == [outcome |-> msg, accessToken |-> NoAccess,
                   refreshToken |-> NoToken, user |-> {}, of |-> c]

Returned(c, tokens) == [outcome |-> MsgOk,
                        accessToken |-> tokens.accessToken,
                        refreshToken |-> tokens.refreshToken,
                        user |-> userFields(c.op), of |-> c]

TokenInputs == issued \cup {Tamper(t) : t \in issued} \cup {Garbage}

\* The logout route hands on whatever the body holds, also nothing.
LogoutInputs == TokenInputs \cup {Undefined}

Idle(p) == pc[p] = "idle"

\* Only the answers of the requests that finished since the last request
\* started are kept.
Forget == [q \in Procs |-> NoResult]

\* p's request ends at once with answer r.
Finish(p, r) ==
    /\ pc' = [pc EXCEPT ![p] = "idle"]
    /\ call' = [call EXCEPT ![p] = NoCall]
    /\ result' = [result EXCEPT ![p] = r]

\* p's request c starts; it ends at once with answer r, or goes on at label.
\* Procs are request slots, and a new request takes the first free one.
Begin(p, c, ends, r, label) ==
    /\ Idle(p)
    /\ \A q \in Procs : q < p => ~Idle(q)
    /\ ncalls < MaxCalls
    /\ ncalls' = ncalls + 1
    /\ IF ends
       THEN /\ pc' = pc
            /\ call' = call
            /\ result' = [Forget EXCEPT ![p] = r]
       ELSE /\ pc' = [pc EXCEPT ![p] = label]
            /\ call' = [call EXCEPT ![p] = c]
            /\ result' = Forget

Init ==
    /\ users = [u \in {} |-> 0]
    /\ refresh_tokens = {}
    /\ now = 0
    /\ ticks = 0
    /\ ncalls = 0
    /\ pc = [p \in Procs |-> "idle"]
    /\ call = [p \in Procs |-> NoCall]
    /\ result = [p \in Procs |-> NoResult]
    /\ issued = {}
    /\ access_issued = {}
    /\ rotated = {}
    /\ revoked = {}
    /\ superseded = {}

(* ------------------------------- clock --------------------------------- *)
\* A second passes; this can happen between two statements of a request.
Tick ==
    /\ ticks < MaxTicks
    /\ now' = now + 1
    /\ ticks' = ticks + 1
    /\ UNCHANGED <<users, refresh_tokens, ncalls, pc, call, result,
                   issued, access_issued, rotated, revoked, superseded>>

\* Thirty days pass while no request is running, to the second or just
\* over.
Sleep ==
    /\ ticks < MaxTicks
    /\ \A p \in Procs : Idle(p)
    /\ \E d \in {SessionTtl, SessionTtl + 1} : now' = now + d
    /\ ticks' = ticks + 1
    /\ UNCHANGED <<users, refresh_tokens, ncalls, pc, call, result,
                   issued, access_issued, rotated, revoked, superseded>>

(* ------------------------------ register ------------------------------- *)
\* The role and status a registration request may carry: the two fields
\* are optional.
RegisterDtos == {[role |-> "none", status |-> "none"],
                 [role |-> "teacher", status |-> "banned"]}

\* Variant: the role and status of the request are written.
createUser_fromDto(us, email, password, dto) ==
    [u \in DOMAIN us \cup {uuid(email)} |->
        IF u = uuid(email)
        THEN [email |-> email, password_hash |-> hash(password),
              role |-> IF dto.role = "none" THEN DefaultRole ELSE dto.role,
              status |-> IF dto.status = "none" THEN DefaultStatus
                         ELSE dto.status]
        ELSE us[u]]

\* usersService.create: the unique index on email rejects a second account;
\* role and status are not among the written columns and take the defaults.
createUser(us, email, password, dto) ==
    [u \in DOMAIN us \cup {uuid(email)} |->
        IF u = uuid(email)
        THEN [email |-> email, password_hash |-> hash(password),
              role |-> DefaultRole, status |-> DefaultStatus]
        ELSE us[u]]

Register(p, email, password, dto) ==
    LET created == createUser(users, email, password, dto)
        c == [NoCall EXCEPT !.op = "register", !.email = email,
                            !.password = password, !.user = uuid(email),
                            !.dto = dto,
                            !.role = created[uuid(email)].role,
                            !.status = created[uuid(email)].status]
        taken == findUserByEmail(users, email) # {}
    IN /\ Begin(p, c, taken, Failed(c, ErrP2002), "save_deleteMany")
       /\ users' = IF taken THEN users ELSE created
       /\ UNCHANGED <<refresh_tokens, now, ticks, issued, access_issued, rotated, revoked,
                      superseded>>

(* -------------------------------- login -------------------------------- *)
\* Variant: an unknown email gets its own message.
loginCheck_tellsUnknown(us, email, password) ==
    LET found == findUserByEmail(us, email) IN
    IF found = {} THEN MsgNoUser
    ELSE IF \E u \in found : ~compare(password, us[u].password_hash)
         THEN MsgCredentials
         ELSE MsgOk

\* Variant: an account that is not active is turned away.
loginCheck_activeOnly(us, email, password) ==
    LET found == findUserByEmail(us, email) IN
    IF found = {} THEN MsgCredentials
    ELSE IF \E u \in found : ~compare(password, us[u].password_hash)
         THEN MsgCredentials
    ELSE IF \E u \in found : us[u].status # "active"
         THEN MsgCredentials
         ELSE MsgOk

\* The two tests of login before any token is made.
loginCheck(us, email, password) ==
    LET found == findUserByEmail(us, email) IN
    IF found = {} THEN MsgCredentials
    ELSE IF \E u \in found : ~compare(password, us[u].password_hash)
         THEN MsgCredentials
         ELSE MsgOk

\* Variant: a wrong password ends the sessions of the account.
loginRejectStore_lockout(rows, found, check) ==
    {r \in rows : r.user_id \notin found}

\* The store after a login that failed one of the two tests: no statement
\* other than the user lookup has run.
loginRejectStore(rows, found, check) == rows

Login(p, email, password) ==
    LET found == findUserByEmail(users, email)
        check == loginCheck(users, email, password)
        bad == check # MsgOk
        c == [NoCall EXCEPT !.op = "login", !.email = email,
                            !.password = password,
                            !.user = IF bad THEN "none"
                                     ELSE CHOOSE u \in found : TRUE,
                            !.role = IF bad THEN "none"
                                     ELSE users[CHOOSE u \in found : TRUE].role,
                            !.status =
                               IF bad THEN "none"
                               ELSE users[CHOOSE u \in found : TRUE].status,
                            !.prior = {t \in issued :
                                          \E u \in found : t.sub = u}]
    IN /\ Begin(p, c, bad, Failed([c EXCEPT !.prior = {}], check),
                "save_deleteMany")
       /\ refresh_tokens' = IF bad
                            THEN loginRejectStore(refresh_tokens, found, check)
                            ELSE refresh_tokens
       /\ UNCHANGED <<users, now, ticks, issued, access_issued, rotated,
                      revoked, superseded>>

(* --------------------------- saveRefreshToken -------------------------- *)
\* generateTokens, then the first statement of saveRefreshToken.
SaveDeleteMany(p) ==
    /\ pc[p] = "save_deleteMany"
    /\ LET u == call[p].user IN
       /\ call' = [call EXCEPT ![p].tokens =
                      generateTokens(u, call[p].email, call[p].role, now)]
       /\ refresh_tokens' = deleteManyByUser(refresh_tokens, u)
    /\ pc' = [pc EXCEPT ![p] = "save_create"]
    /\ UNCHANGED <<users, now, ticks, ncalls, result, issued, access_issued, rotated,
                   revoked, superseded>>

\* The second statement of saveRefreshToken and the return of the request.
SaveCreate(p) ==
    /\ pc[p] = "save_create"
    /\ LET tok == call[p].tokens.refreshToken
           c == [call[p] EXCEPT !.prior = {}]
       IN
       IF findUniqueToken(refresh_tokens, tok) # {}
       THEN /\ Finish(p, Failed(c, ErrP2002))
            /\ UNCHANGED <<refresh_tokens, issued, access_issued, rotated, superseded>>
       ELSE /\ refresh_tokens' =
                  refresh_tokens \cup {newRow(call[p].user, tok, now)}
            /\ Finish(p, Returned(c, call[p].tokens))
            /\ issued' = issued \cup {tok}
            /\ access_issued' =
                  access_issued \cup {call[p].tokens.accessToken}
            /\ rotated' = IF call[p].op = "refreshToken"
                          THEN rotated \cup {call[p].refreshToken}
                          ELSE rotated
            /\ superseded' = IF call[p].op = "login"
                             THEN superseded \cup call[p].prior
                             ELSE superseded
    /\ UNCHANGED <<users, now, ticks, ncalls, revoked>>

(* ----------------------------- refreshToken ---------------------------- *)
\* Variant: an expired record is removed when it is met.
rejectStore_lazy(rows, token, check) ==
    IF check = MsgExpired THEN deleteManyByToken(rows, token) ELSE rows

\* Variant: a record whose token fails verification is revoked.
rejectStore_revoke(rows, token, check) ==
    IF check = MsgCorrupt THEN deleteManyByToken(rows, token) ELSE rows

\* The store after a request that failed the checks: none of the three
\* throws is preceded by a write.
rejectStore(rows, token, check) == rows

\* Variant: the role is taken from the payload of the refresh token, which
\* has none, and defaults.
refreshRole_default(us, id) == "student"

\* The role of the user record read by the user lookup of refreshToken.
refreshRole(us, id) == us[id].role

RefreshToken(p, token) ==
    LET check == refreshCheck(refresh_tokens, token, now)
        c == [NoCall EXCEPT
                !.op = "refreshToken", !.refreshToken = token,
                !.user = token.sub,
                !.afterRotate = token \in rotated,
                !.afterLogout = token \in revoked,
                !.afterLogin = token \in superseded,
                !.validAtStart = (check = MsgOk),
                !.expiredAtStart = \E r \in refresh_tokens :
                                      r.token = token /\ r.expires_at < now,
                !.roleSeen = {users[u].role :
                                 u \in findUserById(users, token.sub)},
                !.raced = \E q \in Procs \ {p} :
                             /\ call[q].op = "refreshToken"
                             /\ call[q].refreshToken = token
                             /\ call[q].validAtStart]
    IN /\ Begin(p, c, check # MsgOk, Failed(c, check), "ref_user")
       /\ refresh_tokens' = IF check # MsgOk
                            THEN rejectStore(refresh_tokens, token, check)
                            ELSE refresh_tokens
       /\ UNCHANGED <<users, now, ticks, issued, access_issued, rotated,
                      revoked, superseded>>

RefreshFindUser(p) ==
    /\ pc[p] = "ref_user"
    /\ IF findUserById(users, call[p].refreshToken.sub) = {}
       THEN Finish(p, Failed(call[p], MsgNoUser))
       ELSE /\ pc' = [pc EXCEPT ![p] = "ref_delete"]
            /\ call' = [call EXCEPT
                  ![p].email = users[call[p].refreshToken.sub].email,
                  ![p].role = refreshRole(users, call[p].refreshToken.sub)]
            /\ result' = result
    /\ UNCHANGED <<users, refresh_tokens, now, ticks, ncalls, issued,
                   access_issued, rotated, revoked, superseded>>

\* prisma delete throws when the row is no longer there.
RefreshDelete(p) ==
    /\ pc[p] = "ref_delete"
    /\ IF findUniqueToken(refresh_tokens, call[p].refreshToken) = {}
       THEN /\ Finish(p, Failed(call[p], ErrP2025))
            /\ refresh_tokens' = refresh_tokens
       ELSE /\ pc' = [pc EXCEPT ![p] = "save_deleteMany"]
            /\ UNCHANGED <<call, result>>
            /\ refresh_tokens' =
                  deleteManyByToken(refresh_tokens, call[p].refreshToken)
    /\ UNCHANGED <<users, now, ticks, ncalls, issued, access_issued, rotated, revoked,
                   superseded>>

(* -------------------------------- logout ------------------------------- *)
\* Variant: prisma delete in place of deleteMany, which throws when no row
\* matches.
logout_delete(rows, token) ==
    IF {r \in rows : r.token = token} = {}
    THEN [rows |-> rows, outcome |-> ErrP2025]
    ELSE [rows |-> deleteManyByToken(rows, token), outcome |-> MsgLoggedOut]

logout(rows, token) ==
    [rows |-> deleteManyByToken(rows, token), outcome |-> MsgLoggedOut]

Logout(p, token) ==
    LET c == [NoCall EXCEPT !.op = "logout", !.refreshToken = token,
                            !.afterLogout = token \in revoked]
        out == logout(refresh_tokens, token)
    IN /\ Begin(p, c, TRUE, Failed(c, out.outcome), "idle")
       /\ refresh_tokens' = out.rows
       /\ revoked' = revoked \cup ({token} \cap issued)
       /\ UNCHANGED <<users, now, ticks, issued, access_issued, rotated, superseded>>

(* ----------------------------- validateUser ---------------------------- *)
\* Variant: the lookup also asks for a session of the subject.
validateUser_session(us, sub) ==
    {u \in findUserById(us, sub) : \E r \in refresh_tokens : r.user_id = u}

\* The record the guard gets for the subject of an access token: the whole
\* row, or nothing.
validateUser(us, sub) == findUserById(us, sub)

ValidateUser(p, sub) ==
    LET c == [NoCall EXCEPT !.op = "validateUser", !.user = sub]
        r == IF validateUser(users, sub) = {} THEN Failed(c, MsgNoUser)
             ELSE [Failed(c, MsgOk) EXCEPT !.user = userFields(c.op)]
    IN /\ Begin(p, c, TRUE, r, "idle")
       /\ UNCHANGED <<users, refresh_tokens, now, ticks, issued,
                      access_issued, rotated, revoked, superseded>>

\* The strategy's test of an access token: signature and exp claim
\* (exp = iat + 15m), no store lookup.
acceptAccess(token, t) == t < token.iat + AccessTtl

\* The guard lets a request through when the strategy accepts its token and
\* validateUser finds the subject.
canActivate(token, t) ==
    acceptAccess(token, t) /\ validateUser(users, token.sub) # {}

(* ---------------------------- updateUserAdmin -------------------------- *)
\* What an administrator may send: a role or a status, both optional.
AdminDtos == {[role |-> r, status |-> "none"] : r \in Roles}
                \cup {[role |-> "none", status |-> s] : s \in Statuses}

\* An administrator sets the role or the status of an account; a field the
\* request leaves out keeps its value.  The request for an account that
\* does not exist throws and changes nothing.
updateUserAdmin(us, id, dto) ==
    [us EXCEPT ![id].role = IF dto.role = "none" THEN @ ELSE dto.role,
               ![id].status = IF dto.status = "none" THEN @ ELSE dto.status]

UpdateUserAdmin(id, dto) ==
    /\ ncalls < MaxCalls
    /\ findUserById(users, id) # {}
    /\ ncalls' = ncalls + 1
    /\ users' = updateUserAdmin(users, id, dto)
    /\ call' = [p \in Procs |->
                  IF call[p].op = "refreshToken" /\ call[p].user = id
                  THEN [call[p] EXCEPT !.roleSeen = @ \cup {users'[id].role}]
                  ELSE call[p]]
    /\ UNCHANGED <<refresh_tokens, now, ticks, pc, result, issued,
                   access_issued, rotated, revoked, superseded>>

(* ---------------------------- specifications --------------------------- *)
Step(p) ==
    \/ SaveDeleteMany(p)
    \/ SaveCreate(p)
    \/ RefreshFindUser(p)
    \/ RefreshDelete(p)

\* The accounts are interchangeable: the one that registers first is the
\* one called u1.
FirstAccount(e) == e = "u1" \/ "u1" \in DOMAIN users

Start(p) ==
    \/ \E e \in UserIds, d \in RegisterDtos :
          /\ FirstAccount(e)
          /\ Register(p, Email(e), "right", d)
    \/ \E e \in UserIds, pw \in Passwords : Login(p, Email(e), pw)
    \/ \E t \in TokenInputs : RefreshToken(p, t)
    \/ \E t \in LogoutInputs : Logout(p, t)
    \/ \E u \in UserIds : ValidateUser(p, u)

Admin == \E u \in UserIds, d \in AdminDtos : UpdateUserAdmin(u, d)

Next ==
    \/ Tick
    \/ Sleep
    \/ Admin
    \/ \E p \in Procs : Start(p)
    \/ \E p \in Procs : Step(p)

Spec == Init /\ [][Next]_vars

\* Requests that do not overlap: a request starts only when none is running.
AllIdle == \A p \in Procs : Idle(p)

SeqNext ==
    \/ Tick
    \/ Sleep
    \/ Admin
    \/ \E p \in Procs : AllIdle /\ Start(p)
    \/ \E p \in Procs : Step(p)

SeqSpec == Init /\ [][SeqNext]_vars

(* =============================== claims ================================ *)
Sessions(u) == {r \in refresh_tokens : r.user_id = u}

RefreshResult(p) == result[p].of.op = "refreshToken"

\* C1: with requests that do not overlap, the store never holds more than
\* one refresh-token record of a user.
C1_SingleSessionSequential ==
    \A u \in UserIds : Cardinality(Sessions(u)) <= 1

\* A user with a second issuance behind it, and one record.
C1_Witness ==
    /\ AllIdle
    /\ \E p \in Procs, t \in issued :
          /\ result[p].outcome = MsgOk
          /\ result[p].of.op \in {"login", "refreshToken"}
          /\ t # result[p].refreshToken
          /\ t.sub = result[p].refreshToken.sub
          /\ Cardinality(Sessions(t.sub)) = 1

\* C2: a refreshToken(T) that starts after a refreshToken(T) has succeeded
\* is rejected as an invalid refresh token: it does not get past the store
\* lookup, and its answer is the invalid-token error.
C2_RotationInvalidatesPredecessor ==
    \A p \in Procs :
        /\ (call[p].op = "refreshToken") => ~call[p].afterRotate
        /\ (RefreshResult(p) /\ result[p].of.afterRotate)
              => result[p].outcome = MsgInvalid

\* C3: of two overlapping refreshToken calls with the same valid token,
\* exactly one succeeds, and the user's only record then holds the token
\* that call returned.
C3_ConcurrentRefresh ==
    LET a == result[1]
        b == result[2]
    IN (/\ AllIdle
        /\ a.of.op = "refreshToken" /\ b.of.op = "refreshToken"
        /\ a.of.refreshToken = b.of.refreshToken
        /\ a.of.validAtStart /\ b.of.validAtStart
        /\ a.of.raced \/ b.of.raced)
       => /\ (a.outcome = MsgOk) # (b.outcome = MsgOk)
          /\ \E w \in {a, b} :
                /\ w.outcome = MsgOk
                /\ {r.token : r \in Sessions(a.of.refreshToken.sub)}
                      = {w.refreshToken}

\* C4: whenever no request is running, the store holds at most one record
\* of each user, whatever the interleaving of the requests was.
C4_AtomicPut ==
    AllIdle => \A u \in UserIds : Cardinality(Sessions(u)) <= 1

\* C5: a refreshToken call that finds a stored record whose expires_at is
\* earlier than the current time is rejected as expired and returns no
\* token.
C5_ExpiryEnforced ==
    \A p \in Procs :
        /\ (call[p].op = "refreshToken") => ~call[p].expiredAtStart
        /\ (RefreshResult(p) /\ result[p].of.expiredAtStart)
              => /\ result[p].outcome = MsgExpired
                 /\ result[p].refreshToken = NoToken
                 /\ result[p].accessToken = NoAccess

\* A validly signed token with an expired record was presented.
C5_Witness ==
    \E p \in Procs :
        /\ RefreshResult(p)
        /\ result[p].of.expiredAtStart
        /\ result[p].of.refreshToken.sig = "ok"
        /\ result[p].outcome = MsgExpired

\* C6: a token whose signature does not verify never passes the checks of
\* refreshToken, with or without a record that holds exactly that string,
\* and no request that presented one returns tokens.
C6_TamperDetection ==
    /\ \A t \in TokenInputs :
          t.sig # "ok" =>
             /\ refreshCheck(refresh_tokens, t, now) # MsgOk
             /\ refreshCheck(refresh_tokens \cup {newRow(t.sub, t, now)},
                             t, now) # MsgOk
    /\ \A p \in Procs :
          /\ (call[p].op = "refreshToken") => call[p].refreshToken.sig = "ok"
          /\ (RefreshResult(p) /\ result[p].of.refreshToken.sig # "ok")
                => /\ result[p].outcome \in {MsgInvalid, MsgExpired,
                                             MsgCorrupt}
                   /\ result[p].refreshToken = NoToken
                   /\ result[p].accessToken = NoAccess

\* The tampered copy of a token whose session is live was presented.
C6_Witness ==
    \E p \in Procs :
        /\ RefreshResult(p)
        /\ result[p].of.refreshToken.sig = "bad"
        /\ result[p].of.refreshToken.sub \in UserIds
        /\ [result[p].of.refreshToken EXCEPT !.sig = "ok"]
              \in {r.token : r \in refresh_tokens}
        /\ result[p].outcome = MsgInvalid

\* C7: once logout(T) has completed, no record holds T, and a refreshToken(T)
\* that starts afterwards is rejected as an invalid refresh token.
C7_LogoutRevokes ==
    /\ \A t \in revoked : t \notin {r.token : r \in refresh_tokens}
    /\ \A p \in Procs :
          (RefreshResult(p) /\ result[p].of.afterLogout)
              => result[p].outcome = MsgInvalid

\* C8: logout(T) answers with success for every T, removes every record
\* with T, changes nothing when there is none, and a second logout(T)
\* would leave the store as the first left it.
C8_IdempotentLogout ==
    [][\A p \in Procs, t \in TokenInputs :
          Logout(p, t) =>
             /\ result'[p].outcome = MsgLoggedOut
             /\ t \notin {r.token : r \in refresh_tokens'}
             /\ (t \notin {r.token : r \in refresh_tokens})
                   => refresh_tokens' = refresh_tokens
             /\ logout(refresh_tokens', t).outcome = MsgLoggedOut
             /\ logout(refresh_tokens', t).rows = refresh_tokens']_vars

\* A second logout of an issued token has answered.
C8_Witness ==
    \E p \in Procs :
        /\ result[p].of.op = "logout"
        /\ result[p].of.afterLogout
        /\ result[p].outcome = MsgLoggedOut

\* C9: a refreshToken call that presents a token issued to a user before a
\* successful login of that user is rejected.
C9_LoginReplacesSession ==
    \A p \in Procs :
        (RefreshResult(p) /\ result[p].of.afterLogin)
            => result[p].outcome # MsgOk

\* C10: a refreshToken call whose token matches no record is rejected as an
\* invalid refresh token and leaves the store as it was.
C10_UnknownToken ==
    [][\A p \in Procs, t \in TokenInputs :
          (RefreshToken(p, t) /\ t \notin {r.token : r \in refresh_tokens})
             => /\ result'[p].outcome = MsgInvalid
                /\ pc'[p] = "idle"
                /\ refresh_tokens' = refresh_tokens]_vars

\* A token that was rotated away was presented while its user has a session.
C10_Witness ==
    \E p \in Procs :
        /\ RefreshResult(p)
        /\ result[p].outcome = MsgInvalid
        /\ result[p].of.refreshToken \in rotated
        /\ result[p].of.refreshToken \notin {r.token : r \in refresh_tokens}
        /\ Sessions(result[p].of.refreshToken.sub) # {}

\* The request of process p was answered with a token pair.
Succeeded(p, op) == result[p].of.op = op /\ result[p].outcome = MsgOk

\* C11: right after a successful login or register for user u, the store
\* holds exactly one record for u, and its token is the refresh token that
\* was returned.
C11_IssuanceCreatesSession ==
    [][\A p \in Procs :
          (/\ SaveCreate(p)
           /\ call[p].op \in {"login", "register"}
           /\ result'[p].outcome = MsgOk)
          => LET mine == {r \in refresh_tokens' : r.user_id = call[p].user}
             IN /\ Cardinality(mine) = 1
                /\ {r.token : r \in mine} = {result'[p].refreshToken}]_vars

\* C12: the access token returned by a successful login carries the id,
\* email and role of the authenticated user record, and besides the issue
\* time nothing else.
C12_RoundTripClaims ==
    \A p \in Procs :
        Succeeded(p, "login")
        => LET a == result[p].accessToken
               c == result[p].of
           IN /\ a.sub = c.user
              /\ a.sub \in DOMAIN users
              /\ a.email = users[a.sub].email
              /\ a.email = c.email
              /\ a.role = c.role
              /\ DOMAIN a = {"sub", "email", "role", "iat"}

\* A login of an account whose role was changed after registration returned.
C12_Witness ==
    \E p \in Procs :
        /\ Succeeded(p, "login")
        /\ result[p].accessToken.role = "teacher"
        /\ result[p].accessToken.sub \in UserIds
        /\ result[p].accessToken.email = Email(result[p].accessToken.sub)

\* C13: a login with an email of no user and a login with an existing email
\* and a wrong password fail with the same error: every login that is
\* rejected before a token is made has that one error, and the two tests
\* answer alike for every such pair of inputs.
C13_IndistinguishableLoginFailures ==
    /\ \A p \in Procs :
          (/\ result[p].of.op = "login"
           /\ result[p].outcome # "none"
           /\ result[p].of.tokens = NoCall.tokens)
             => result[p].outcome = MsgCredentials
    /\ \A e1 \in UserIds, e2 \in UserIds, w1 \in Passwords, w2 \in Passwords :
          (/\ findUserByEmail(users, Email(e1)) = {}
           /\ findUserByEmail(users, Email(e2)) # {}
           /\ loginCheck(users, Email(e2), w2) # MsgOk)
          => loginCheck(users, Email(e1), w1)
                = loginCheck(users, Email(e2), w2)

\* A login with a wrong password has failed while another email has no user.
C13_Witness ==
    \E p \in Procs :
        /\ result[p].of.op = "login"
        /\ result[p].outcome = MsgCredentials
        /\ findUserByEmail(users, result[p].of.email) # {}
        /\ \E e \in UserIds : findUserByEmail(users, Email(e)) = {}

\* The four ways refreshToken rejects a token.
RefreshRejections == {MsgInvalid, MsgExpired, MsgCorrupt, MsgNoUser}

\* C14: every rejection of refreshToken carries the same error as the
\* rejection of a token that is not in the store.
C14_GenericRefreshFailure ==
    \A p \in Procs :
        (RefreshResult(p) /\ result[p].outcome \in RefreshRejections)
            => result[p].outcome = MsgInvalid

\* C15: a refreshToken call returns a token pair or an authentication
\* error, under every interleaving; it never ends with an error of the
\* storage layer.
C15_NoCrashOnRefreshRace ==
    \A p \in Procs :
        RefreshResult(p)
            => result[p].outcome \in RefreshRejections \cup {MsgOk}

\* C16: a successful refreshToken(T) returns a refresh token different from
\* T, and no issuance returns a value an earlier issuance returned.
C16_RotationYieldsNewToken ==
    [][\A p \in Procs :
          (SaveCreate(p) /\ result'[p].outcome = MsgOk)
          => /\ result'[p].refreshToken \notin issued
             /\ result'[p].refreshToken # call[p].refreshToken]_vars

\* C17: the access token returned by a successful refreshToken carries the
\* email of the user record and a role the record held during the refresh;
\* when the role was changed only before the refresh, it carries the changed
\* role.
C17_RoleReReadAtRotation ==
    \A p \in Procs :
        Succeeded(p, "refreshToken")
        => LET a == result[p].accessToken
               c == result[p].of
           IN /\ a.sub = c.refreshToken.sub
              /\ a.email = users[a.sub].email
              /\ a.role \in c.roleSeen

\* A refresh after a role change returned the changed role.
C17_Witness ==
    \E p \in Procs :
        /\ Succeeded(p, "refreshToken")
        /\ result[p].of.roleSeen = {"teacher"}
        /\ result[p].accessToken.role = "teacher"

C19_PasswordHashNeverExposed ==
    \A p \in Procs : "password_hash" \notin result[p].user

C21_OrderOfRefreshChecks ==
    [][\A p \in Procs :
          /\ \A t \in TokenInputs :
                RefreshToken(p, t) =>
                   LET stored == findUniqueToken(refresh_tokens, t)
                       expired == \E r \in stored :
                                     isExpired(now, r.expires_at)
                   IN /\ (stored = {}) => result'[p].outcome = MsgInvalid
                      /\ (stored # {} /\ expired)
                            => result'[p].outcome = MsgExpired
                      /\ (stored # {} /\ ~expired /\ ~verify(t, now))
                            => result'[p].outcome = MsgCorrupt
                      /\ (stored # {} /\ ~expired /\ verify(t, now))
                            => pc'[p] = "ref_user"
          /\ RefreshFindUser(p) => call[p].validAtStart]_vars

\* A token whose record is expired and whose verification fails as well was
\* reported as expired, and its tampered copy would be reported as invalid.
C21_Witness ==
    \E p \in Procs :
        /\ RefreshResult(p)
        /\ result[p].outcome = MsgExpired
        /\ ~verify(result[p].of.refreshToken, now)
        /\ findUniqueToken(refresh_tokens, Tamper(result[p].of.refreshToken))
              = {}
        /\ refreshCheck(refresh_tokens, Tamper(result[p].of.refreshToken), now)
              = MsgInvalid

\* C22: a login with correct credentials for an existing user returns a
\* token pair, whatever other requests run at the same time.
C22_LoginRobustToConcurrency ==
    \A p \in Procs :
        (/\ result[p].of.op = "login"
         /\ result[p].outcome # "none"
         /\ result[p].of.user # "none")
            => result[p].outcome = MsgOk

\* C23: the record written for a register, a login or a successful refresh
\* expires thirty days after that write, so a refresh moves the expiry of the
\* session.
C23_SlidingExpiry ==
    [][\A p \in Procs :
          (SaveCreate(p) /\ result'[p].outcome = MsgOk)
             => /\ refresh_tokens' # refresh_tokens
                /\ \A r \in refresh_tokens' \ refresh_tokens :
                      /\ r.token = result'[p].refreshToken
                      /\ r.expires_at = now + SessionTtl]_vars

\* A refresh has written a record that expires later than thirty days after
\* the presented token was issued, and later than the returned token does.
C23_Witness ==
    \E p \in Procs, r \in refresh_tokens :
        /\ Succeeded(p, "refreshToken")
        /\ r.token = result[p].refreshToken
        /\ r.expires_at = now + SessionTtl
        /\ r.expires_at > result[p].of.refreshToken.iat + SessionTtl
        /\ r.expires_at > r.token.iat + SessionTtl

\* C24: logout(T) removes exactly the records whose token is T and leaves
\* every other record as it was, for every request, also one without a
\* refreshToken value.
C24_LogoutTouchesOnlyPresentedToken ==
    [][\A p \in Procs, t \in LogoutInputs :
          Logout(p, t)
             => refresh_tokens' = {r \in refresh_tokens : r.token # t}]_vars

\* C25: a login rejected for an unknown email or a wrong password leaves the
\* refresh_tokens store as it was, so it ends no session.
C25_FailedLoginHasNoEffect ==
    [][\A p \in Procs, e \in UserIds, w \in Passwords :
          (Login(p, Email(e), w) /\ result'[p].outcome = MsgCredentials)
             => /\ refresh_tokens' = refresh_tokens
                /\ users' = users
                /\ pc'[p] = "idle"]_vars

\* A login with a wrong password has failed against an account that has a
\* session.
C25_Witness ==
    \E p \in Procs :
        /\ result[p].of.op = "login"
        /\ result[p].outcome = MsgCredentials
        /\ \E u \in findUserByEmail(users, result[p].of.email) :
              Sessions(u) # {}

C27_CrossUserIsolation ==
    [][\A p \in Procs :
          /\ (/\ pc[p] # "idle"
              /\ pc'[p] # pc[p]
              /\ call[p].op \in {"register", "login", "refreshToken"})
                => \A u \in UserIds \ {call[p].user} :
                      {r \in refresh_tokens' : r.user_id = u} = Sessions(u)
          /\ (/\ pc[p] = "idle"
              /\ pc'[p] # "idle"
              /\ call'[p].op \in {"register", "login", "refreshToken"})
                => refresh_tokens' = refresh_tokens
          /\ (/\ ncalls' # ncalls
              /\ result'[p].of.op \in {"register", "login", "refreshToken"})
                => refresh_tokens' = refresh_tokens]_vars

\* A request for one user has returned a token pair while another user has
\* a session.
C27_Witness ==
    \E p \in Procs, u \in UserIds :
        /\ result[p].outcome = MsgOk
        /\ result[p].of.op \in {"register", "login", "refreshToken"}
        /\ result[p].of.user # u
        /\ Sessions(u) # {}
        /\ Sessions(result[p].of.user) # {}

\* C28: every record in the store belongs to the user its token names:
\* user_id equals the sub claim of the stored token.
C28_OwnerMatchesSubject ==
    \A r \in refresh_tokens :
        /\ r.user_id = r.token.sub
        /\ r.user_id \in DOMAIN users

\* The store holds a record written by a refresh, next to the record of a
\* registration.
C28_Witness ==
    \E p \in Procs, r \in refresh_tokens :
        /\ Succeeded(p, "refreshToken")
        /\ r.token = result[p].refreshToken
        /\ r.user_id = result[p].of.refreshToken.sub
        /\ \E q \in refresh_tokens : q.user_id # r.user_id

\* C29: a user created through register gets the default role and status,
\* whatever role or status the request carries, and the access token that
\* register returns carries the default role.
C29_RegistrationCannotChooseRole ==
    [][\A p \in Procs :
          /\ \A e \in UserIds, d \in RegisterDtos :
                (Register(p, Email(e), "right", d) /\ users' # users)
                   => /\ uuid(Email(e)) \notin DOMAIN users
                      /\ users'[uuid(Email(e))].role = DefaultRole
                      /\ users'[uuid(Email(e))].status = DefaultStatus
          /\ (/\ SaveCreate(p)
              /\ call[p].op = "register"
              /\ result'[p].outcome = MsgOk)
                => result'[p].accessToken.role = DefaultRole]_vars

\* A registration that asked for another role and status has returned a
\* token with the default role.
C29_Witness ==
    \E p \in Procs :
        /\ Succeeded(p, "register")
        /\ result[p].of.dto.role \in Roles \ {DefaultRole}
        /\ result[p].of.dto.status \in Statuses \ {DefaultStatus}
        /\ result[p].accessToken.role = DefaultRole
        /\ result[p].of.status = DefaultStatus

\* The users table with the status of account u set to s.
withStatus(us, u, s) == updateUserAdmin(us, u, [role |-> "none", status |-> s])

\* On the users table us, the tests of login and the user lookup of
\* refreshToken give the same whatever status an account has.
StatusBlind(us) ==
    \A u \in DOMAIN us, s \in Statuses :
        /\ \A e \in UserIds, w \in Passwords :
              loginCheck(withStatus(us, u, s), Email(e), w)
                 = loginCheck(us, Email(e), w)
        /\ findUserById(withStatus(us, u, s), u) = findUserById(us, u)
        /\ refreshRole(withStatus(us, u, s), u) = refreshRole(us, u)

\* C30: the status of an account decides neither login nor refreshToken:
\* on every users table the system gets to, the tests of login and the
\* user lookup of refreshToken give the same outcome with the status of any
\* account set to any value; a change of role or status by the
\* administrator removes no refresh_tokens record; and no login with the
\* right password for an account is turned away, whatever its status.
C30_StatusDoesNotInfluenceSessions ==
    [][/\ (users' # users)
             => /\ StatusBlind(users')
                /\ (DOMAIN users' = DOMAIN users)
                      => refresh_tokens' = refresh_tokens
       /\ \A p \in Procs :
             (/\ result'[p] # result[p]
              /\ result'[p].of.op = "login"
              /\ result'[p].of.password = "right"
              /\ findUserByEmail(users, result'[p].of.email) # {})
                => result'[p].outcome # MsgCredentials]_vars

\* A login of a banned account has returned a token pair, and the account
\* has its session.
C30_Witness ==
    \E p \in Procs :
        /\ Succeeded(p, "login")
        /\ result[p].of.status = "banned"
        /\ Sessions(result[p].of.user) # {}

====
